---- MODULE Spec2Model ----
(***************************************************************************)
(* Model of examples/demo.rs of egui-snarl: the expression parser          *)
(* (Expr::parse, parse_with_unop, parse_binop), the evaluator and binder   *)
(* (Expr::eval, Expr::extend_bindings), the connect handler                *)
(* (DemoViewer::connect) and the edit cycle with its port rebinding        *)
(* (DemoViewer::show_content), over a graph of wires.                      *)
(***************************************************************************)
EXTENDS Integers, Sequences, FiniteSets, TLC

VARIABLES
    exprs,      \* node id -> ExprNode {text, bindings, values, expr}
    wires,      \* Snarl's wire set: {[out |-> node, inp |-> <<node, input>>]}
    effects,    \* the Effects queue filled by the last handler, in emission order
    last,       \* what the last handler was, and the snapshot it was given
    input,      \* parser harness: the token sequence handed to parse_str
    parsed      \* parser harness: "none" before the call, then its result

vars == <<exprs, wires, effects, last, input, parsed>>

(***************************************************************************)
(* Bounds.                                                                 *)
(***************************************************************************)
\* values a DragValue is set to: 0..MaxVal
MaxVal == 1
\* token sequences of every shape up to this length are parsed
MaxTokens == 3
\* parenthesis-free operand/operator chains up to this many operands
MaxOperands == 4

(***************************************************************************)
(* f32 arithmetic on exact rationals <<n, d>>, d > 0 in lowest terms;      *)
(* <<1,0>> is +inf, <<-1,0>> is -inf, <<0,0>> is NaN.  Rounding and the    *)
(* sign of zero are not represented.                                       *)
(***************************************************************************)
Abs(n) == IF n < 0 THEN -n ELSE n

Sign(n) == IF n < 0 THEN -1 ELSE IF n > 0 THEN 1 ELSE 0

RECURSIVE GCD(_, _)
GCD(a, b) == IF b = 0 THEN a ELSE GCD(b, a % b)

Norm(n, d) ==
    IF d = 0 THEN <<Sign(n), 0>>
    ELSE LET g == GCD(Abs(n), Abs(d))
             s == Sign(d)
         IN  <<(s * n) \div g, (s * d) \div g>>

Q(n) == <<n, 1>>

FAdd(a, b) ==
    IF a[2] = 0 /\ b[2] = 0
    THEN IF a[1] = b[1] THEN a ELSE <<0, 0>>
    ELSE Norm(a[1] * b[2] + b[1] * a[2], a[2] * b[2])

FNeg(a) == <<-a[1], a[2]>>

FSub(a, b) == FAdd(a, FNeg(b))

FMul(a, b) == Norm(a[1] * b[1], a[2] * b[2])

FDiv(a, b) == FMul(a, Norm(b[2], b[1]))

(***************************************************************************)
(* Tokens.  A text is the sequence of tokens proc_macro2 lexes it into.    *)
(***************************************************************************)
Idents == {"x", "y", "z"}

IntLits == {"0", "1", "2", "3"}

FloatLits == {"0.5"}

BinOps == {"+", "-", "*", "/"}

UnOps == {"+", "-"}

\* LitInt::base10_parse::<f32> and LitFloat::base10_parse::<f32>
base10_parse(lit) ==
    CASE lit = "0" -> Q(0)
      [] lit = "1" -> Q(1)
      [] lit = "2" -> Q(2)
      [] lit = "3" -> Q(3)
      [] lit = "0.5" -> <<1, 2>>

(***************************************************************************)
(* Expr: <<"Var", name>>, <<"Val", value>>, <<"UnOp", op, expr>>,          *)
(* <<"BinOp", lhs, op, rhs>>.                                              *)
(***************************************************************************)
Var(name) == <<"Var", name>>

Val(value) == <<"Val", value>>

UnOp(op, expr) == <<"UnOp", op, expr>>

BinOp(lhs, op, rhs) == <<"BinOp", lhs, op, rhs>>

\* Rust's Option::None of an index
None == -1

\* v[i] of a Vec: indices start at 0
At(v, i) == v[i + 1]

\* bindings.iter().position(|binding| binding == name)
position(bindings, name) ==
    IF \E i \in 0..(Len(bindings) - 1) : At(bindings, i) = name
    THEN CHOOSE i \in 0..(Len(bindings) - 1) :
            /\ At(bindings, i) = name
            /\ \A k \in 0..(i - 1) : At(bindings, k) # name
    ELSE None

\* bindings.contains(name)
contains(bindings, name) == position(bindings, name) # None

\* the unwrap() of an absent name in Expr::eval
Panic == <<>>

\* Expr::eval
RECURSIVE eval(_, _, _)
eval(e, bindings, args) ==
    CASE e[1] = "Var" ->
            IF contains(bindings, e[2]) THEN At(args, position(bindings, e[2]))
            ELSE Panic
      [] e[1] = "Val" -> e[2]
      [] e[1] = "UnOp" ->
            LET v == eval(e[3], bindings, args)
            IN  IF v = Panic THEN Panic
                ELSE IF e[2] = "+" THEN v ELSE FNeg(v)
      [] e[1] = "BinOp" ->
            LET l == eval(e[2], bindings, args)
                r == eval(e[4], bindings, args)
            IN  IF l = Panic \/ r = Panic THEN Panic
                ELSE CASE e[3] = "+" -> FAdd(l, r)
                       [] e[3] = "-" -> FSub(l, r)
                       [] e[3] = "*" -> FMul(l, r)
                       [] e[3] = "/" -> FDiv(l, r)

\* Expr::extend_bindings
RECURSIVE extend_bindings(_, _)
extend_bindings(e, bindings) ==
    CASE e[1] = "Var" ->
            IF contains(bindings, e[2]) THEN bindings ELSE Append(bindings, e[2])
      [] e[1] = "Val" -> bindings
      [] e[1] = "UnOp" -> extend_bindings(e[3], bindings)
      [] e[1] = "BinOp" -> extend_bindings(e[4], extend_bindings(e[2], bindings))

(***************************************************************************)
(* The parser.  A result is [ok, expr]; Err carries no partial AST.        *)
(***************************************************************************)
Ok(e) == [ok |-> TRUE, expr |-> e]

Err == [ok |-> FALSE, expr |-> <<>>]

\* proc_macro2's lexer: a text whose parentheses do not match is no token stream
RECURSIVE Depth(_, _)
Depth(toks, i) ==
    IF i = 0 THEN 0
    ELSE Depth(toks, i - 1)
         + (IF toks[i] = "(" THEN 1 ELSE IF toks[i] = ")" THEN -1 ELSE 0)

Balanced(toks) ==
    /\ \A i \in 1..Len(toks) : Depth(toks, i) >= 0
    /\ Depth(toks, Len(toks)) = 0

\* syn::parenthesized!: the index of the ")" closing the group opened at toks[1]
GroupEnd(toks) == CHOOSE i \in 1..Len(toks) :
    /\ Depth(toks, i) = 0
    /\ \A k \in 1..(i - 1) : Depth(toks, k) > 0

RECURSIVE parse(_), parse_with_unop(_, _), parse_binop(_, _, _), primary(_)

\* the lookahead chain shared by parse, parse_with_unop and parse_binop:
\* Paren, LitFloat, LitInt, Ident; anything else (the end of input too) is
\* left to the caller.  [ok, hit, expr, rest]: hit says a branch was taken.
primary(toks) ==
    IF toks = <<>> THEN [hit |-> FALSE, ok |-> FALSE, expr |-> <<>>, rest |-> toks]
    ELSE IF Head(toks) = "("
    THEN LET c == GroupEnd(toks)
             r == parse(SubSeq(toks, 2, c - 1))
         IN  [hit |-> TRUE, ok |-> r.ok, expr |-> r.expr,
              rest |-> SubSeq(toks, c + 1, Len(toks))]
    ELSE IF Head(toks) \in FloatLits \cup IntLits
    THEN [hit |-> TRUE, ok |-> TRUE, expr |-> Val(base10_parse(Head(toks))),
          rest |-> Tail(toks)]
    ELSE IF Head(toks) \in Idents
    THEN [hit |-> TRUE, ok |-> TRUE, expr |-> Var(Head(toks)), rest |-> Tail(toks)]
    ELSE [hit |-> FALSE, ok |-> FALSE, expr |-> <<>>, rest |-> toks]

\* Expr::parse_binop
parse_binop(lhs, op, toks) ==
    LET p == primary(toks)
    IN  IF ~p.hit \/ ~p.ok THEN Err
        ELSE IF p.rest = <<>> THEN Ok(BinOp(lhs, op, p.expr))
        ELSE IF Head(p.rest) \notin BinOps THEN Err
        ELSE LET next_op == Head(p.rest)
             IN  IF op \in {"+", "-"} /\ next_op \in {"*", "/"}
                 THEN LET rhs == parse_binop(p.expr, next_op, Tail(p.rest))
                      IN  IF rhs.ok THEN Ok(BinOp(lhs, op, rhs.expr)) ELSE Err
                 ELSE parse_binop(BinOp(lhs, op, p.expr), next_op, Tail(p.rest))

\* Expr::parse_with_unop
parse_with_unop(op, toks) ==
    LET p == primary(toks)
    IN  IF ~p.hit \/ ~p.ok THEN Err
        ELSE IF p.rest = <<>> THEN Ok(UnOp(op, p.expr))
        ELSE IF Head(p.rest) \notin BinOps THEN Err
        ELSE parse_binop(UnOp(op, p.expr), Head(p.rest), Tail(p.rest))

\* <Expr as syn::parse::Parse>::parse
parse(toks) ==
    LET p == primary(toks)
    IN  IF p.hit
        THEN IF ~p.ok THEN Err
             ELSE IF p.rest = <<>> THEN Ok(p.expr)
             ELSE IF Head(p.rest) \notin BinOps THEN Err
             ELSE parse_binop(p.expr, Head(p.rest), Tail(p.rest))
        ELSE IF toks # <<>> /\ Head(toks) \in UnOps
             THEN parse_with_unop(Head(toks), Tail(toks))
             ELSE Err

\* syn::parse_str::<Expr>
parse_str(toks) == IF Balanced(toks) THEN parse(toks) ELSE Err

(***************************************************************************)
(* The graph: nodes, pins, wires and the Effects queue.                    *)
(***************************************************************************)
\* the nodes of the graph, by Snarl node index: one node of each DemoNode kind
Kind == <<"Integer", "Expr", "String", "Show", "Sink">>

Nodes == 0..(Len(Kind) - 1)

KindOf(n) == At(Kind, n)

ExprNodes == {n \in Nodes : KindOf(n) = "Expr"}

\* ExprNode::new
ExprNode_new ==
    [text |-> <<"0">>, bindings |-> <<>>, values |-> <<>>, expr |-> Val(Q(0))]

\* ExprNode::eval
ExprNode_eval(en) == eval(en.expr, en.bindings, en.values)

\* DemoViewer::inputs
inputs(n) ==
    CASE KindOf(n) = "Sink" -> 1
      [] KindOf(n) = "Integer" -> 0
      [] KindOf(n) = "String" -> 0
      [] KindOf(n) = "Show" -> 1
      [] KindOf(n) = "Expr" -> Len(exprs[n].bindings)

\* DemoViewer::outputs
outputs(n) ==
    CASE KindOf(n) = "Sink" -> 0
      [] KindOf(n) = "Integer" -> 1
      [] KindOf(n) = "String" -> 1
      [] KindOf(n) = "Show" -> 1
      [] KindOf(n) = "Expr" -> 1

\* InPinId {node, input}
InPinId(n, i) == <<n, i>>

Wire(from, to) == [out |-> from, inp |-> to]

\* the set of nodes wired to an input pin
RemoteSet(ws, pin) == {w.out : w \in {v \in ws : v.inp = pin}}

\* a set of nodes as a list, lowest index first
RECURSIVE Listed(_)
Listed(S) ==
    IF S = {} THEN <<>>
    ELSE LET m == CHOOSE a \in S : \A b \in S : a <= b
         IN  <<m>> \o Listed(S \ {m})

\* InPin::remotes: the outputs wired to the pin
remotes(ws, pin) == Listed(RemoteSet(ws, pin))

\* Effects::connect, Effects::disconnect, Effects::drop_inputs
EffConnect(from, to) == [kind |-> "connect", from |-> from, to |-> to]

EffDisconnect(from, to) == [kind |-> "disconnect", from |-> from, to |-> to]

EffDropInputs(pin) == [kind |-> "drop_inputs", from |-> None, to |-> pin]

\* Snarl applying one effect to its wire set
Apply(ws, e) ==
    CASE e.kind = "connect" -> ws \cup {Wire(e.from, e.to)}
      [] e.kind = "disconnect" -> ws \ {Wire(e.from, e.to)}
      [] e.kind = "drop_inputs" -> {w \in ws : w.inp # e.to}

\* Snarl applying the queue in emission order
RECURSIVE ApplyAll(_, _)
ApplyAll(ws, es) ==
    IF es = <<>> THEN ws ELSE ApplyAll(Apply(ws, Head(es)), Tail(es))

(***************************************************************************)
(* DemoViewer::connect                                                     *)
(***************************************************************************)
\* Validate with the String -> Expr arm accepting
Validate_StringToExpr(from, to) ==
    CASE from = "Sink" -> "unreachable"
      [] from # "Sink" /\ to \in {"Integer", "String"} -> "unreachable"
      [] from = "Integer" /\ to = "Show" -> "Forbidden"
      [] from = "Show" /\ to = "Show" -> "Forbidden"
      [] from # "Sink" /\ to = "Sink" -> "Ok"
      [] from = "String" /\ to = "Show" -> "Ok"
      [] from = "Expr" /\ to = "Expr" -> "Ok"
      [] from = "Integer" /\ to = "Expr" -> "Ok"
      [] from = "String" /\ to = "Expr" -> "Ok"
      [] from = "Show" /\ to = "Expr" -> "Forbidden"
      [] from = "Expr" /\ to = "Show" -> "Forbidden"

\* the match that validates (source kind, destination kind)
Validate(from, to) ==
    CASE from = "Sink" -> "unreachable"
      [] from # "Sink" /\ to \in {"Integer", "String"} -> "unreachable"
      [] from = "Integer" /\ to = "Show" -> "Forbidden"
      [] from = "Show" /\ to = "Show" -> "Forbidden"
      [] from # "Sink" /\ to = "Sink" -> "Ok"
      [] from = "String" /\ to = "Show" -> "Ok"
      [] from = "Expr" /\ to = "Expr" -> "Ok"
      [] from = "Integer" /\ to = "Expr" -> "Ok"
      [] from = "String" /\ to = "Expr" -> "Forbidden"
      [] from = "Show" /\ to = "Expr" -> "Forbidden"
      [] from = "Expr" /\ to = "Show" -> "Forbidden"

\* one Disconnect per remote of the pin
RECURSIVE DisconnectEach(_, _)
DisconnectEach(rs, to) ==
    IF rs = <<>> THEN <<>>
    ELSE <<EffDisconnect(Head(rs), to)>> \o DisconnectEach(Tail(rs), to)

\* connect_effects without the loop over the remotes
connect_effects_NoDisconnect(ws, from, to) == <<EffConnect(from, to)>>

\* connect_effects with the connect queued before the disconnects
connect_effects_ConnectFirst(ws, from, to) ==
    <<EffConnect(from, to)>> \o DisconnectEach(remotes(ws, to), to)

\* the effects the handler queues when the pair is valid
connect_effects(ws, from, to) ==
    DisconnectEach(remotes(ws, to), to) \o <<EffConnect(from, to)>>

\* the handler: [result, effects]
connect(ws, from, to) ==
    IF Validate(KindOf(from), KindOf(to[1])) = "Ok"
    THEN [result |-> "Ok", effects |-> connect_effects(ws, from, to)]
    ELSE [result |-> Validate(KindOf(from), KindOf(to[1])), effects |-> <<>>]

(***************************************************************************)
(* DemoViewer::show_content: the edit cycle of an expression node          *)
(***************************************************************************)
\* the disconnect/connect pair queued for each remote of a moved slot
RECURSIVE MoveEach(_, _, _)
MoveEach(rs, old_pin, new_in_pin) ==
    IF rs = <<>> THEN <<>>
    ELSE <<EffDisconnect(Head(rs), old_pin), EffConnect(Head(rs), new_in_pin)>>
         \o MoveEach(Tail(rs), old_pin, new_in_pin)

\* rebind_slot with the None arm doing nothing
rebind_slot_NoDrop(ws, node_idx, idx, name, new_bindings) ==
    LET new_idx == position(new_bindings, name)
    IN  IF new_idx = None THEN <<>>
        ELSE IF new_idx # idx
        THEN MoveEach(remotes(ws, InPinId(node_idx, idx)),
                      InPinId(node_idx, idx), InPinId(node_idx, new_idx))
        ELSE <<>>

\* rebind_slot building new_in_pin with node and input exchanged
rebind_slot_SwappedPin(ws, node_idx, idx, name, new_bindings) ==
    LET new_idx == position(new_bindings, name)
    IN  IF new_idx = None THEN <<EffDropInputs(InPinId(node_idx, idx))>>
        ELSE IF new_idx # idx
        THEN MoveEach(remotes(ws, InPinId(node_idx, idx)),
                      InPinId(node_idx, idx), InPinId(new_idx, node_idx))
        ELSE <<>>

\* rebind_slot without the new_idx != idx guard
rebind_slot_AlwaysMove(ws, node_idx, idx, name, new_bindings) ==
    LET new_idx == position(new_bindings, name)
    IN  IF new_idx = None THEN <<EffDropInputs(InPinId(node_idx, idx))>>
        ELSE MoveEach(remotes(ws, InPinId(node_idx, idx)),
                      InPinId(node_idx, idx), InPinId(node_idx, new_idx))

\* the body of the loop over the old bindings, for one (idx, name)
rebind_slot(ws, node_idx, idx, name, new_bindings) ==
    LET new_idx == position(new_bindings, name)
    IN  IF new_idx = None THEN <<EffDropInputs(InPinId(node_idx, idx))>>
        ELSE IF new_idx # idx
        THEN MoveEach(remotes(ws, InPinId(node_idx, idx)),
                      InPinId(node_idx, idx), InPinId(node_idx, new_idx))
        ELSE <<>>

\* the loop over the old bindings from slot idx on
RECURSIVE rebind_from(_, _, _, _, _)
rebind_from(ws, node_idx, idx, bindings, new_bindings) ==
    IF idx >= Len(bindings) THEN <<>>
    ELSE rebind_slot(ws, node_idx, idx, At(bindings, idx), new_bindings)
         \o rebind_from(ws, node_idx, idx + 1, bindings, new_bindings)

rebind(ws, node_idx, bindings, new_bindings) ==
    rebind_from(ws, node_idx, 0, bindings, new_bindings)

\* the HashMap collected from zip(bindings, values): the last entry of a key wins
values_get(bindings, values, name) ==
    LET n == IF Len(bindings) < Len(values) THEN Len(bindings) ELSE Len(values)
        hits == {i \in 0..(n - 1) : At(bindings, i) = name}
    IN  IF hits = {} THEN None
        ELSE CHOOSE i \in hits : \A k \in hits : k <= i

\* new_values reusing the old value of the slot, not of the name
new_values_BySlot(bindings, values, new_bindings) ==
    [j \in 1..Len(new_bindings) |->
        IF j <= Len(values) THEN values[j] ELSE Q(0)]

\* new_values: the old value of each new name, or 0.0
new_values(bindings, values, new_bindings) ==
    [j \in 1..Len(new_bindings) |->
        IF values_get(bindings, values, new_bindings[j]) = None THEN Q(0)
        ELSE At(values, values_get(bindings, values, new_bindings[j]))]

\* show_content resetting the node when the text does not parse
show_content_ResetOnErr(ws, node_idx, en, text) ==
    LET r == parse_str(text)
        new_bindings == extend_bindings(r.expr, <<>>)
    IN  IF r.ok
        THEN [ok |-> TRUE,
              node |-> [text |-> text,
                        bindings |-> new_bindings,
                        values |-> new_values(en.bindings, en.values, new_bindings),
                        expr |-> r.expr],
              effects |-> rebind(ws, node_idx, en.bindings, new_bindings)]
        ELSE [ok |-> FALSE,
              node |-> [ExprNode_new EXCEPT !.text = text],
              effects |-> rebind(ws, node_idx, en.bindings, <<>>)]

\* show_content storing the new AST without storing the new bindings
show_content_StaleBindings(ws, node_idx, en, text) ==
    LET r == parse_str(text)
        new_bindings == extend_bindings(r.expr, <<>>)
    IN  IF r.ok
        THEN [ok |-> TRUE,
              node |-> [text |-> text,
                        bindings |-> en.bindings,
                        values |-> en.values,
                        expr |-> r.expr],
              effects |-> <<>>]
        ELSE [ok |-> FALSE,
              node |-> [en EXCEPT !.text = text],
              effects |-> <<>>]

\* the handler on node node_idx whose text field now holds text:
\* [ok, node, effects]
show_content(ws, node_idx, en, text) ==
    LET r == parse_str(text)
        new_bindings == extend_bindings(r.expr, <<>>)
    IN  IF r.ok
        THEN [ok |-> TRUE,
              node |-> [text |-> text,
                        bindings |-> new_bindings,
                        values |-> new_values(en.bindings, en.values, new_bindings),
                        expr |-> r.expr],
              effects |-> rebind(ws, node_idx, en.bindings, new_bindings)]
        ELSE [ok |-> FALSE,
              node |-> [en EXCEPT !.text = text],
              effects |-> <<>>]

(***************************************************************************)
(* The state machine                                                       *)
(***************************************************************************)
\* the texts typed into an expression node's field
Texts == {
    <<"0">>,
    <<"x", "+", "y">>,
    <<"y", "+", "x">>,
    <<"z", "+", "x">>,
    <<"x", "+">> }

\* the numbers a DragValue is dragged to
DragValues == 0..MaxVal

\* the values an input slot is let to hold
SlotValues == {Q(v) : v \in DragValues}

NoParse == [done |-> FALSE, ok |-> FALSE, expr |-> <<>>]

Init ==
    /\ exprs = [n \in ExprNodes |-> ExprNode_new]
    /\ wires = {}
    /\ effects = <<>>
    /\ last = [op |-> "new", node |-> None, from |-> None, slot |-> None,
               text |-> <<>>, result |-> "Ok", old |-> ExprNode_new, wires |-> {}]
    /\ input = <<>>
    /\ parsed = NoParse

\* the user drags a wire from the output of node from to input pin to
DoConnect(from, to) ==
    /\ outputs(from) > 0
    /\ to[2] < inputs(to[1])
    /\ LET c == connect(wires, from, to)
       IN  /\ c.result # "unreachable"
           /\ effects' = c.effects
           /\ wires' = ApplyAll(wires, c.effects)
           /\ last' = [op |-> "connect", node |-> to[1], from |-> from,
                       slot |-> to[2], text |-> <<>>, result |-> c.result,
                       old |-> ExprNode_new, wires |-> wires]
    /\ UNCHANGED <<exprs, input, parsed>>

\* a frame shows expression node n with text in its field
DoShowContent(n, text) ==
    LET c == show_content(wires, n, exprs[n], text)
    IN  /\ exprs' = [exprs EXCEPT ![n] = c.node]
        /\ effects' = c.effects
        /\ wires' = ApplyAll(wires, c.effects)
        /\ last' = [op |-> "show_content", node |-> n, from |-> None,
                    slot |-> None, text |-> text,
                    result |-> IF c.ok THEN "Ok" ELSE "Err",
                    old |-> exprs[n], wires |-> wires]
        /\ UNCHANGED <<input, parsed>>

\* DemoViewer::show_input on input slot i of expression node n.  An unwired
\* slot takes the number its DragValue is dragged to; a slot wired to the
\* Integer node takes the number that node's own DragValue holds (an i32 the
\* user sets freely, read here and not kept in the state); a slot wired to an
\* expression node takes that node's eval().
DoShowInput(n, i) ==
    /\ i < Len(exprs[n].bindings)
    /\ LET rs == remotes(wires, InPinId(n, i))
       IN  /\ Len(rs) <= 1
           /\ \E v \in SlotValues :
                /\ \/ rs = <<>>
                   \/ /\ Len(rs) = 1
                      /\ KindOf(rs[1]) = "Integer"
                      /\ v[1] \in DragValues
                   \/ /\ Len(rs) = 1
                      /\ KindOf(rs[1]) = "Expr"
                      /\ v = ExprNode_eval(exprs[rs[1]])
                /\ exprs' = [exprs EXCEPT ![n].values[i + 1] = v]
    /\ effects' = <<>>
    /\ last' = [op |-> "show_input", node |-> n, from |-> None, slot |-> i,
                text |-> <<>>, result |-> "Ok", old |-> ExprNode_new,
                wires |-> {}]
    /\ UNCHANGED <<wires, input, parsed>>

\* the input slots a node of the model can have
Slots == 0..2

Next ==
    \/ \E from \in Nodes, n \in Nodes, i \in Slots : DoConnect(from, InPinId(n, i))
    \/ \E n \in ExprNodes, text \in Texts : DoShowContent(n, text)
    \/ \E n \in ExprNodes, i \in Slots : DoShowInput(n, i)

Spec == Init /\ [][Next]_vars

(***************************************************************************)
(* The parser on its own: parse_str applied to one token sequence.         *)
(***************************************************************************)
Alphabet == Idents \cup {"1", "2", "0.5"} \cup BinOps \cup {"(", ")"}

\* the sequences over S of length n
SeqsOfLen(S, n) == [1..n -> S]

\* every token sequence of at most MaxTokens tokens
ShortInputs == UNION {SeqsOfLen(Alphabet, n) : n \in 0..MaxTokens}

ChainOperands == {"2", "3", "x"}

\* operand (operator operand)*: the parenthesis-free expressions
IsChain(toks) ==
    /\ Len(toks) % 2 = 1
    /\ \A i \in 1..Len(toks) :
        IF i % 2 = 1 THEN toks[i] \in Idents \cup IntLits \cup FloatLits
        ELSE toks[i] \in BinOps

\* the chains of k operands
Chains(k) ==
    {toks \in SeqsOfLen(ChainOperands \cup BinOps, 2 * k - 1) :
        \A i \in 1..(2 * k - 1) :
            IF i % 2 = 1 THEN toks[i] \in ChainOperands ELSE toks[i] \in BinOps}

\* the forms of a leading primary: an operand, a parenthesized operand, and
\* a unary operator applied to either
LeadingForms ==
    LET plain == {<<b>> : b \in ChainOperands}
                    \cup {<<"(", b, ")">> : b \in ChainOperands}
    IN  plain \cup {<<u>> \o r : u \in UnOps, r \in plain}

\* operand operator form: each leading form as a right-hand operand
RhsInputs ==
    {<<a, op>> \o r : a \in ChainOperands, op \in BinOps, r \in LeadingForms}

ParseInputs ==
    ShortInputs \cup UNION {Chains(k) : k \in 1..MaxOperands} \cup RhsInputs

InitParse ==
    /\ exprs = [n \in ExprNodes |-> ExprNode_new]
    /\ wires = {}
    /\ effects = <<>>
    /\ last = [op |-> "new", node |-> None, from |-> None, slot |-> None,
               text |-> <<>>, result |-> "Ok", old |-> ExprNode_new, wires |-> {}]
    /\ input \in ParseInputs
    /\ parsed = NoParse

\* syn::parse_str(&expr_node.text) on the input
DoParse ==
    /\ ~parsed.done
    /\ parsed' = [done |-> TRUE, ok |-> parse_str(input).ok,
                  expr |-> parse_str(input).expr]
    /\ UNCHANGED <<exprs, wires, effects, last, input>>

NextParse == DoParse

SpecParse == InitParse /\ [][NextParse]_vars

(***************************************************************************)
(* Properties                                                              *)
(***************************************************************************)
\* the last handler was a successful edit cycle of an expression node
Pass == last.op = "show_content" /\ last.result = "Ok"

\* the input pins some wire ends at, now or before the last handler
WiredPins == {w.inp : w \in wires \cup last.wires}

\* the slots of a binding list
SlotsOf(bindings) == 0..(Len(bindings) - 1)

\* C1: after a rebinding pass, every name that had a connection from source s
\* at its old slot and is in the new binding list has s connected to its new
\* slot.
C1_NamePreservingMove ==
    Pass =>
        \A i \in SlotsOf(last.old.bindings) :
            \A s \in RemoteSet(last.wires, InPinId(last.node, i)) :
                LET j == position(exprs[last.node].bindings, At(last.old.bindings, i))
                IN  j # None => Wire(s, InPinId(last.node, j)) \in wires

\* C2: every input pin has at most one incoming wire (an output may feed many).
C2_FanIn ==
    \A pin \in WiredPins : Cardinality(RemoteSet(wires, pin)) <= 1

\* an output feeds two inputs after a rebinding pass that queued effects
C2_Witness ==
    /\ Pass
    /\ effects # <<>>
    /\ \E s \in Nodes : Cardinality({w \in wires : w.out = s}) >= 2

\* C3: after a rebinding pass (a) no wire ends at a slot at or beyond the length
\* of the new binding list, and (b) a slot of the new list is wired only if its
\* name was in the old list and that name's old slot was wired.
C3_VanishedAndNew ==
    Pass =>
        LET n == last.node
            new == exprs[n].bindings
            old == last.old.bindings
        IN  /\ \A w \in wires : w.inp[1] = n => w.inp[2] < Len(new)
            /\ \A j \in SlotsOf(new) :
                RemoteSet(wires, InPinId(n, j)) # {} =>
                    /\ contains(old, At(new, j))
                    /\ RemoteSet(last.wires,
                                 InPinId(n, position(old, At(new, j)))) # {}

\* a pass in which a wired name vanished and a new name took a slot
C3_Witness ==
    /\ Pass
    /\ \E i \in SlotsOf(last.old.bindings) :
        /\ ~contains(exprs[last.node].bindings, At(last.old.bindings, i))
        /\ RemoteSet(last.wires, InPinId(last.node, i)) # {}
    /\ \E j \in SlotsOf(exprs[last.node].bindings) :
        ~contains(last.old.bindings, At(exprs[last.node].bindings, j))

\* the pairs the legality rules allow
Legal(from, to) ==
    \/ to = "Sink"
    \/ to = "Show" /\ from = "String"
    \/ to = "Expr" /\ from \in {"Integer", "Expr"}

\* C4: the connect handler accepts a pair and queues effects iff the pair is
\* legal; otherwise it returns Forbidden, queues nothing and the graph is as it
\* was.
C4_Legality ==
    last.op = "connect" =>
        /\ last.result = "Ok" <=> Legal(KindOf(last.from), KindOf(last.node))
        /\ last.result = "Ok" => effects # <<>>
        /\ last.result # "Ok" =>
            /\ last.result = "Forbidden"
            /\ effects = <<>>
            /\ wires = last.wires

\* a rejected connect onto an expression node that already has wires
C4_Witness ==
    /\ last.op = "connect"
    /\ last.result = "Forbidden"
    /\ KindOf(last.node) = "Expr"
    /\ wires # {}

\* C5: a legal connect of s to a pin that already has a wire queues a
\* disconnect for every wire on the pin and then one connect; afterwards the
\* pin has exactly one wire, from s, and every other pin is as before.
C5_Replacement ==
    (/\ last.op = "connect"
     /\ last.result = "Ok"
     /\ RemoteSet(last.wires, InPinId(last.node, last.slot)) # {}) =>
        LET p == InPinId(last.node, last.slot)
            rs == RemoteSet(last.wires, p)
            k == Len(effects)
        IN  /\ k = Cardinality(rs) + 1
            /\ \A i \in 1..(k - 1) :
                /\ effects[i].kind = "disconnect"
                /\ effects[i].to = p
                /\ effects[i].from \in rs
            /\ \A r \in rs : \E i \in 1..(k - 1) : effects[i].from = r
            /\ effects[k] = EffConnect(last.from, p)
            /\ RemoteSet(wires, p) = {last.from}
            /\ {w \in wires : w.inp # p} = {w \in last.wires : w.inp # p}

\* a connect that replaced the wire of another source
C5_Witness ==
    /\ last.op = "connect"
    /\ last.result = "Ok"
    /\ \E r \in RemoteSet(last.wires, InPinId(last.node, last.slot)) :
        r # last.from

\* C6: an edit cycle whose text does not parse leaves the AST, the bindings and
\* the values as they were, queues no effect, and stores the text as typed.
C6_FailedParse ==
    (last.op = "show_content" /\ ~parse_str(last.text).ok) =>
        /\ exprs[last.node].expr = last.old.expr
        /\ exprs[last.node].bindings = last.old.bindings
        /\ exprs[last.node].values = last.old.values
        /\ exprs[last.node].text = last.text
        /\ effects = <<>>
        /\ wires = last.wires

\* a failed parse on a node that has bindings, a wire and a non-zero value
C6_Witness ==
    /\ last.op = "show_content"
    /\ last.result = "Err"
    /\ last.old.text # last.text
    /\ \E i \in SlotsOf(last.old.bindings) :
        /\ RemoteSet(wires, InPinId(last.node, i)) # {}
        /\ At(last.old.values, i) # Q(0)

\* C7: an edit cycle on the text the node already holds queues no effect and
\* leaves bindings and values as they are; and in any pass a name that stays at
\* its slot has no effect queued for that slot.
C7_Idempotence ==
    /\ (last.op = "show_content" /\ last.text = last.old.text) =>
        /\ effects = <<>>
        /\ exprs[last.node].bindings = last.old.bindings
        /\ exprs[last.node].values = last.old.values
    /\ Pass =>
        \A i \in SlotsOf(last.old.bindings) :
            position(exprs[last.node].bindings, At(last.old.bindings, i)) = i =>
                \A k \in 1..Len(effects) :
                    effects[k].to # InPinId(last.node, i)

\* a second pass on the same parsed text, on a node with a wired slot
C7_Witness ==
    /\ Pass
    /\ last.text = last.old.text
    /\ \E i \in SlotsOf(last.old.bindings) :
        RemoteSet(last.wires, InPinId(last.node, i)) # {}

\* the variable names occurring in an AST
RECURSIVE VarsOf(_)
VarsOf(e) ==
    CASE e[1] = "Var" -> {e[2]}
      [] e[1] = "Val" -> {}
      [] e[1] = "UnOp" -> VarsOf(e[3])
      [] e[1] = "BinOp" -> VarsOf(e[2]) \cup VarsOf(e[4])

\* C9: every variable name in a node's AST is in the node's binding list, so
\* evaluation never reaches the lookup of an absent name.
C9_BindingConsistency ==
    \A n \in ExprNodes :
        /\ \A name \in VarsOf(exprs[n].expr) : contains(exprs[n].bindings, name)
        /\ ExprNode_eval(exprs[n]) # Panic

\* a node with variables whose text failed to parse after a value update
C9_Witness ==
    \E n \in ExprNodes :
        /\ VarsOf(exprs[n].expr) # {}
        /\ ~parse_str(exprs[n].text).ok
        /\ last.op = "show_input"

\* C10: after a successful re-parse the values are as many as the new bindings
\* (the input port count), and each is the old value of its name if the name
\* was in the old binding list, and zero otherwise.
C10_ValuesLockstep ==
    Pass =>
        LET n == last.node
            new == exprs[n].bindings
            old == last.old.bindings
        IN  /\ Len(exprs[n].values) = Len(new)
            /\ inputs(n) = Len(new)
            /\ \A j \in SlotsOf(new) :
                At(exprs[n].values, j) =
                    IF contains(old, At(new, j))
                    THEN At(last.old.values, position(old, At(new, j)))
                    ELSE Q(0)

\* a pass in which a name with a non-zero value moved to another slot and a
\* new name appeared
C10_Witness ==
    /\ Pass
    /\ \E i \in SlotsOf(last.old.bindings) :
        LET j == position(exprs[last.node].bindings, At(last.old.bindings, i))
        IN  /\ j # None
            /\ j # i
            /\ At(last.old.values, i) # Q(0)
            /\ At(last.old.values, i) # At(last.old.values, j)
    /\ \E j \in SlotsOf(exprs[last.node].bindings) :
        ~contains(last.old.bindings, At(exprs[last.node].bindings, j))

\* the values the variables of a chain are given
ChainValues == {Q(0), Q(1), Q(2)}

ChainBindings == <<"x", "y", "z">>

\* the last operator of a chain that is in ops, 0 when there is none
LastOp(toks, ops) ==
    IF \E i \in 1..Len(toks) : i % 2 = 0 /\ toks[i] \in ops
    THEN CHOOSE i \in 1..Len(toks) :
            /\ i % 2 = 0 /\ toks[i] \in ops
            /\ \A k \in (i + 1)..Len(toks) : ~(k % 2 = 0 /\ toks[k] \in ops)
    ELSE 0

\* the conventional reading of a chain: * and / bind tighter than + and -,
\* operators of one tier associate to the left
RECURSIVE Conventional(_)
Conventional(toks) ==
    IF Len(toks) = 1
    THEN IF toks[1] \in Idents THEN Var(toks[1]) ELSE Val(base10_parse(toks[1]))
    ELSE LET i == IF LastOp(toks, {"+", "-"}) # 0 THEN LastOp(toks, {"+", "-"})
                  ELSE LastOp(toks, {"*", "/"})
         IN  BinOp(Conventional(SubSeq(toks, 1, i - 1)), toks[i],
                   Conventional(SubSeq(toks, i + 1, Len(toks))))

\* C8: the AST parsed from a parenthesis-free chain evaluates to the value of
\* its conventional reading, whatever the variables hold.
C8_Precedence ==
    (parsed.done /\ IsChain(input)) =>
        /\ parsed.ok
        /\ \A args \in [1..Len(ChainBindings) -> ChainValues] :
            eval(parsed.expr, ChainBindings, args)
                = eval(Conventional(input), ChainBindings, args)

\* C11: every connect the rebinding pass queues is a pair the legality rules
\* allow, and every wire of every reachable graph is a legal pair, so the
\* renderer's "Invalid connection" branches are not reached.
C11_AllLegal ==
    /\ \A w \in wires : Legal(KindOf(w.out), KindOf(w.inp[1]))
    /\ Pass =>
        \A k \in 1..Len(effects) :
            effects[k].kind = "connect" =>
                Legal(KindOf(effects[k].from), KindOf(effects[k].to[1]))

\* a pass that queued connects for an Integer wire and for an Expr wire, in a
\* graph that also has a String wire
C11_Witness ==
    /\ Pass
    /\ \E k \in 1..Len(effects) :
        effects[k].kind = "connect" /\ KindOf(effects[k].from) = "Integer"
    /\ \E k \in 1..Len(effects) :
        effects[k].kind = "connect" /\ KindOf(effects[k].from) = "Expr"
    /\ \E w \in wires : KindOf(w.out) = "String"

\* one primary of the grammar: an operand, a parenthesized group, or a unary
\* operator before either
IsPrimaryForm(toks) ==
    LET plain(r) == \/ Len(r) = 1 /\ r[1] \in Idents \cup IntLits \cup FloatLits
                    \/ /\ Len(r) >= 2
                       /\ r[1] = "("
                       /\ Balanced(r)
                       /\ GroupEnd(r) = Len(r)
    IN  \/ plain(toks)
        \/ Len(toks) >= 2 /\ toks[1] \in UnOps /\ plain(Tail(toks))

\* the AST of a single operand token
Leaf(tok) == IF tok \in Idents THEN Var(tok) ELSE Val(base10_parse(tok))

Perms(n) == {f \in [1..n -> 1..n] : \A i, j \in 1..n : i # j => f[i] # f[j]}

\* the commands es taken in the order f
Permuted(es, f) == [k \in 1..Len(es) |-> es[f[k]]]

\* the last pass's commands give the same wires in whatever order they are
\* applied to the wires the pass was given
AnyOrder ==
    \A f \in Perms(Len(effects)) :
        ApplyAll(last.wires, Permuted(effects, f)) = wires

MovesOntoClearSlots ==
    LET n == last.node
        new == exprs[n].bindings
        old == last.old.bindings
    IN  \A i \in SlotsOf(old) :
            LET j == position(new, At(old, i))
            IN  (/\ RemoteSet(last.wires, InPinId(n, i)) # {}
                 /\ j # None
                 /\ j # i) =>
                    /\ RemoteSet(last.wires, InPinId(n, j)) = {}
                    /\ j < Len(old) => contains(new, At(old, j))

After(k) == ApplyAll(last.wires, SubSeq(effects, 1, k))

\* C14: while the commands of a rebinding pass are applied one at a time in
\* emission order, every graph in between has at most one wire per input pin.
C14_FanInBetween ==
    Pass =>
        \A k \in 0..Len(effects) :
            \A pin \in {w.inp : w \in After(k)} :
                Cardinality(RemoteSet(After(k), pin)) <= 1

====
